---- MODULE Spec2Model ----
(***************************************************************************)
(* mermaid-mcp: two MCP servers (src/src/index.ts and src/src/cli.ts) that *)
(* analyse flowchart descriptions, normalise quotes and compile a          *)
(* description into Mermaid flowchart text.                                *)
(*                                                                         *)
(* A JavaScript string is modelled as a sequence of characters; a          *)
(* character is a one-character TLA+ string (a character outside ASCII is  *)
(* written as its code point, "U+2705"; so is the backquote, "U+0060").    *)
(***************************************************************************)
EXTENDS Integers, Sequences, FiniteSets, TLC

(* ------------------------------ bounds -------------------------------- *)

\* Largest number of delimiter-separated fragments in a description.
MaxFrags == 3

\* Largest length (in characters) of a convert-quotes description.
MaxLen == 4

\* The longest string the JavaScript engine builds, scaled down to the modelled
\* descriptions: building a longer one throws a RangeError.
MaxStringLength == 288

\* The most tools/call requests in flight at a time.
MaxCalls == 2

(* ------------------------- String primitives -------------------------- *)

\* The delimiters of the regular expression /\.|,|\n/.
Delimiters == {".", ",", "\n"}

\* White space removed by String.prototype.trim (the part of it that the
\* modelled inputs contain).
WhiteSpace == {" ", "\t", "\r", "\n"}

UpperCase == <<"A","B","C","D","E","F","G","H","I","J","K","L","M","N","O","P","Q",
    "R","S","T","U","V","W","X","Y","Z">>

LowerCase == <<"a","b","c","d","e","f","g","h","i","j","k","l","m","n","o","p","q",
    "r","s","t","u","v","w","x","y","z">>

\* String.prototype.toLowerCase.
toLowerCase(s) ==
    [k \in 1..Len(s) |->
        IF \E u \in 1..26 : UpperCase[u] = s[k]
        THEN LowerCase[CHOOSE u \in 1..26 : UpperCase[u] = s[k]]
        ELSE s[k]]

\* String.prototype.includes.
includes(s, word) ==
    \E p \in 0..(Len(s) - Len(word)) : SubSeq(s, p + 1, p + Len(word)) = word

\* Array.prototype.some over a keyword list, each tested with includes.
someIncluded(s, words) == \E w \in 1..Len(words) : includes(s, words[w])

\* String.prototype.split(/\.|,|\n/): the fragments between delimiters; a
\* string without delimiter (the empty string too) gives one fragment.
RECURSIVE split(_)
split(s) ==
    IF s = <<>> THEN << <<>> >>
    ELSE LET rest == split(Tail(s))
         IN  IF Head(s) \in Delimiters
             THEN << <<>> >> \o rest
             ELSE << <<Head(s)>> \o Head(rest) >> \o Tail(rest)

RECURSIVE trimStart(_)
trimStart(s) ==
    IF s # <<>> /\ Head(s) \in WhiteSpace THEN trimStart(Tail(s)) ELSE s

RECURSIVE trimEnd(_)
trimEnd(s) ==
    IF s # <<>> /\ s[Len(s)] \in WhiteSpace
    THEN trimEnd(SubSeq(s, 1, Len(s) - 1))
    ELSE s

\* String.prototype.trim.
trim(s) == trimEnd(trimStart(s))

\* String.prototype.replace(/[...]/g, ""): every character of chars removed.
removeAll(s, chars) == SelectSeq(s, LAMBDA c : c \notin chars)

\* (s.match(/[...]/g) || []).length: the number of characters of chars in s.
countAll(s, chars) == Len(SelectSeq(s, LAMBDA c : c \in chars))

Digits == <<"0","1","2","3","4","5","6","7","8","9">>

\* The decimal text of a number, as a template literal renders it.
RECURSIVE numberToString(_)
numberToString(n) ==
    IF n < 10 THEN <<Digits[n + 1]>>
    ELSE numberToString(n \div 10) \o <<Digits[(n % 10) + 1]>>

(* ------------------------- generateFlowchart -------------------------- *)

\* "flowchart TD\n"
FlowchartHeader == <<"f","l","o","w","c","h","a","r","t"," ","T","D","\n">>

\* The four spaces that indent a node or an edge line.
Indent == <<" "," "," "," ">>

NewLine == <<"\n">>

\* `step${index + 1}`, position being index + 1.
stepId(position) == <<"s","t","e","p">> \o numberToString(position)

\* The steps without the final .map((step) => step.trim()).
stepTextsUntrimmed(description) ==
    SelectSeq(split(description), LAMBDA step : Len(trim(step)) > 0)

\* The steps of the description: split, the blank fragments dropped, trimmed.
stepTexts(description) ==
    LET kept == SelectSeq(split(description), LAMBDA step : Len(trim(step)) > 0)
    IN  [k \in 1..Len(kept) |-> trim(kept[k])]

\* A label cleaned of its double quotes only: text.replace(/"/g, "").
cleanedLabelDoubleOnly(text) == removeAll(text, {"\""})

\* text.replace(/['"]/g, "")
cleanedLabel(text) == removeAll(text, {"'", "\""})

\* The nodes array: one node per step, in order.
flowNodes(description) ==
    LET texts == stepTexts(description)
    IN  [k \in 1..Len(texts) |->
            [id |-> stepId(k), label |-> cleanedLabel(texts[k])]]

\* `    ${node.id}["${node.label}"]\n`
nodeLine(node) ==
    Indent \o node.id \o <<"[", "\"">> \o node.label \o <<"\"", "]">> \o NewLine

RECURSIVE nodeLines(_, _)
nodeLines(nodes, k) ==
    IF k > Len(nodes) THEN <<>>
    ELSE nodeLine(nodes[k]) \o nodeLines(nodes, k + 1)

\* The test that makes a node a decision point.
isDecision(label) ==
    \/ includes(toLowerCase(label), <<"i","f">>)
    \/ includes(toLowerCase(label), <<"d","e","c","i","d","e">>)
    \/ includes(toLowerCase(label), <<"c","h","e","c","k">>)

\* The test that makes a node the "else" case of a decision.
isElse(label) ==
    \/ includes(toLowerCase(label), <<"e","l","s","e">>)
    \/ includes(toLowerCase(label), <<"o","t","h","e","r","w","i","s","e">>)

\* The inner loop without its break, keeping the last else node it meets: 0
\* when there is none at or after position j.
scanElseLast(nodes, j) ==
    LET found == {k \in j..Len(nodes) : isElse(nodes[k].label)}
    IN  IF found = {} THEN 0 ELSE CHOOSE k \in found : \A m \in found : m <= k

\* The inner loop started at the first node, for (let j = 0; ...), whatever
\* the position of the decision node: the first else node of the whole list.
scanElseFromStart(nodes, j) ==
    LET found == {k \in 1..Len(nodes) : isElse(nodes[k].label)}
    IN  IF found = {} THEN 0 ELSE CHOOSE k \in found : \A m \in found : k <= m

\* The inner loop, for (let j = i + 1; ...), with its break: the position of the
\* first else node at or after position j, 0 when the loop ends without one.
RECURSIVE scanElse(_, _)
scanElse(nodes, j) ==
    IF j > Len(nodes) THEN 0
    ELSE IF isElse(nodes[j].label) THEN j
    ELSE scanElse(nodes, j + 1)

\* `    ${current} --> ${next}\n`
plainEdge(current, next) == Indent \o current \o <<" ","-","-",">"," ">> \o next \o NewLine

\* `    ${current} -->|Yes| ${next}\n`
yesEdge(current, next) ==
    Indent \o current \o <<" ","-","-",">","|","Y","e","s","|"," ">> \o next \o NewLine

\* `    ${current} -->|No| ${target}\n`
noEdge(current, target) ==
    Indent \o current \o <<" ","-","-",">","|","N","o","|"," ">> \o target \o NewLine

\* One turn of the outer loop without its line 200: a decision node with an
\* else node gets its No edge only.
edgesOfNoOnly(nodes, i) ==
    LET current == nodes[i].id
        next    == nodes[i + 1].id
    IN  IF isDecision(nodes[i].label)
        THEN LET j == scanElse(nodes, i + 1)
             IN  IF j # 0
                 THEN noEdge(current, nodes[j].id)
                 ELSE plainEdge(current, next)
        ELSE plainEdge(current, next)

\* One turn of the outer loop, at position i (the code's i + 1): the edge
\* lines appended for the node at position i.
edgesOf(nodes, i) ==
    LET current == nodes[i].id
        next    == nodes[i + 1].id
    IN  IF isDecision(nodes[i].label)
        THEN LET j == scanElse(nodes, i + 1)
             IN  IF j # 0
                 THEN yesEdge(current, nodes[i + 1].id) \o noEdge(current, nodes[j].id)
                 ELSE plainEdge(current, next)
        ELSE plainEdge(current, next)

\* The outer loop, for (let i = 0; i < nodes.length - 1; i++).
RECURSIVE edgeLines(_, _)
edgeLines(nodes, i) ==
    IF i > Len(nodes) - 1 THEN <<>>
    ELSE edgesOf(nodes, i) \o edgeLines(nodes, i + 1)

generateFlowchart(description) ==
    LET nodes == flowNodes(description)
    IN  FlowchartHeader \o nodeLines(nodes, 1) \o edgeLines(nodes, 1)

(* -------------------- analyzeFlowchartDescription --------------------- *)

StartWords == << <<"s","t","a","r","t">>, <<"b","e","g","i","n">>, <<"f","i","r","s","t">> >>

connectionWords ==
    << <<"t","h","e","n">>,
       <<"n","e","x","t">>,
       <<"a","f","t","e","r">>,
       <<"f","o","l","l","o","w","e","d"," ","b","y">>,
       <<"g","o","e","s"," ","t","o">>,
       <<"l","e","a","d","s"," ","t","o">>,
       <<"c","o","n","n","e","c","t","s"," ","t","o">>,
       <<"-",">">> >>

decisionWords ==
    << <<"i","f">>,
       <<"e","l","s","e">>,
       <<"o","t","h","e","r","w","i","s","e">>,
       <<"w","h","e","n">>,
       <<"c","a","s","e">>,
       <<"c","o","n","d","i","t","i","o","n">>,
       <<"d","e","c","i","s","i","o","n">> >>

\* "Starting point of the flowchart"
MissingStart == <<"S","t","a","r","t","i","n","g"," ","p","o","i","n","t"," ","o",
                  "f"," ","t","h","e"," ","f","l","o","w","c","h","a","r","t">>

\* "Connections between steps (use words like 'then', 'next', 'after', etc.)"
MissingConnections ==
    <<"C","o","n","n","e","c","t","i","o","n","s"," ","b","e","t","w","e","e","n",
      " ","s","t","e","p","s"," ","(","u","s","e"," ","w","o","r","d","s"," ","l",
      "i","k","e"," ","'","t","h","e","n","'",","," ","'","n","e","x","t","'",",",
      " ","'","a","f","t","e","r","'",","," ","e","t","c",".",")">>

\* "Decision points (if any are needed in this flowchart)"
MissingDecisions == <<"D","e","c","i","s","i","o","n"," ","p","o","i","n","t","s",
                      " ","(","i","f"," ","a","n","y"," ","a","r","e"," ","n","e",
                      "e","d","e","d"," ","i","n"," ","t","h","i","s"," ","f","l",
                      "o","w","c","h","a","r","t",")">>

\* The three checks made on the description as written, toLowerCase left out.
missingInfoOfCaseSensitive(description) ==
    (IF ~someIncluded(description, StartWords) THEN <<MissingStart>> ELSE <<>>)
    \o (IF ~someIncluded(description, connectionWords)
        THEN <<MissingConnections>> ELSE <<>>)
    \o (IF ~someIncluded(description, decisionWords)
        THEN <<MissingDecisions>> ELSE <<>>)

\* The three checks, each pushing its entry onto missingInfo in turn.
missingInfoOf(description) ==
    LET lower          == toLowerCase(description)
        hasStart       == someIncluded(lower, StartWords)
        hasConnections == someIncluded(lower, connectionWords)
        hasDecisions   == someIncluded(lower, decisionWords)
    IN  (IF ~hasStart THEN <<MissingStart>> ELSE <<>>)
        \o (IF ~hasConnections THEN <<MissingConnections>> ELSE <<>>)
        \o (IF ~hasDecisions THEN <<MissingDecisions>> ELSE <<>>)

\* The analyzer's steps: split and filtered, but not yet trimmed.
previewSteps(description) ==
    SelectSeq(split(description), LAMBDA step : Len(trim(step)) > 0)

\* "Flow preview:\n"
PreviewHeader == <<"F","l","o","w"," ","p","r","e","v","i","e","w",":","\n">>

\* index.ts: `${index + 1}. ${step.replace(/"/g, "").trim()}\n`
previewLine(step, position) ==
    numberToString(position) \o <<".", " ">> \o trim(removeAll(step, {"\""}))
        \o NewLine

\* cli.ts: `${index + 1}. ${step.trim()}\n`
cliPreviewLine(step, position) ==
    numberToString(position) \o <<".", " ">> \o trim(step) \o NewLine

RECURSIVE previewLines(_, _)
previewLines(steps, k) ==
    IF k > Len(steps) THEN <<>>
    ELSE previewLine(steps[k], k) \o previewLines(steps, k + 1)

RECURSIVE cliPreviewLines(_, _)
cliPreviewLines(steps, k) ==
    IF k > Len(steps) THEN <<>>
    ELSE cliPreviewLine(steps[k], k) \o cliPreviewLines(steps, k + 1)

\* analyzeFlowchartDescription of index.ts.
analyzeFlowchartDescription(description) ==
    LET missingInfo == missingInfoOf(description)
    IN  [isComplete  |-> Len(missingInfo) = 0,
         missingInfo |-> missingInfo,
         preview     |-> PreviewHeader \o previewLines(previewSteps(description), 1)]

\* analyzeFlowchartDescription of cli.ts.
cliAnalyzeFlowchartDescription(description) ==
    LET missingInfo == missingInfoOf(description)
    IN  [isComplete  |-> Len(missingInfo) = 0,
         missingInfo |-> missingInfo,
         preview     |-> PreviewHeader
                            \o cliPreviewLines(previewSteps(description), 1)]

(* --------------- convertDoubleToSingleQuotesInsideText ---------------- *)

\* A normalizer that does what its name says: every double quote replaced by a
\* single quote, nothing removed, nothing put around.
convertReplacingBySingleQuotes(description) ==
    [convertedDescription |->
         [k \in 1..Len(description) |->
             IF description[k] = "\"" THEN "'" ELSE description[k]],
     replacementCount |-> countAll(description, {"\""})]

\* A normalizer that removes the double quotes and puts none around the text.
convertWithoutWrapping(description) ==
    [convertedDescription |-> removeAll(description, {"\""}),
     replacementCount |-> countAll(description, {"\""})]

convertDoubleToSingleQuotesInsideText(description) ==
    LET doubleQuoteCount == countAll(description, {"\""})
    IN  [convertedDescription |->
             <<"\"">> \o removeAll(description, {"\""}) \o <<"\"">>,
         replacementCount |-> doubleQuoteCount]

(* --------------------------- tool handlers ---------------------------- *)

\* What an async handler's promise settles to: fulfilled with the content
\* array of the returned object, or rejected.
Fulfilled(text) ==
    [state |-> "fulfilled", content |-> << [type |-> "text", text |-> text] >>]

Rejected == [state |-> "rejected", content |-> <<>>]

CompleteText ==
    <<"U+2705"," ","Y","o","u","r"," ","f","l","o","w","c","h","a","r","t"," ","d",
      "e","s","c","r","i","p","t","i","o","n"," ","a","p","p","e","a","r","s"," ",
      "t","o"," ","b","e"," ","c","o","m","p","l","e","t","e","!"," ","Y","o","u",
      " ","c","a","n"," ","n","o","w"," ","g","e","n","e","r","a","t","e"," ","a",
      " ","M","e","r","m","a","i","d"," ","f","l","o","w","c","h","a","r","t",".">>

IncompleteText ==
    <<"U+26A0","U+FE0F"," ","Y","o","u","r"," ","f","l","o","w","c","h","a","r","t",
      " ","d","e","s","c","r","i","p","t","i","o","n"," ","m","i","g","h","t"," ",
      "b","e"," ","m","i","s","s","i","n","g"," ","s","o","m","e"," ","i","n","f",
      "o","r","m","a","t","i","o","n",":","\n">>

ConsiderText == <<"\n","C","o","n","s","i","d","e","r"," ","a","d","d","i","n","g",
                  " ","m","o","r","e"," ","d","e","t","a","i","l","s"," ","f","o",
                  "r"," ","a"," ","b","e","t","t","e","r"," ","f","l","o","w","c",
                  "h","a","r","t",".">>

\* analysis.missingInfo.forEach: `- ${info}\n` for every entry.
RECURSIVE missingInfoLines(_, _)
missingInfoLines(missingInfo, k) ==
    IF k > Len(missingInfo) THEN <<>>
    ELSE <<"-", " ">> \o missingInfo[k] \o NewLine
             \o missingInfoLines(missingInfo, k + 1)

\* The handler of analyze-flowchart (the same text in both files), from the
\* analysis its file's analyzeFlowchartDescription returned.
analyzeFlowchartHandler(analysis) ==
    Fulfilled(analysis.preview \o <<"\n", "\n">>
        \o (IF analysis.isComplete
            THEN CompleteText
            ELSE IncompleteText \o missingInfoLines(analysis.missingInfo, 1)
                     \o ConsiderText))

ConvertedPrefix == <<"C","o","n","v","e","r","t","e","d"," ">>

ConvertedSuffix == <<" ","d","o","u","b","l","e"," ","q","u","o","t","e","(","s",
                     ")"," ","t","o"," ","s","i","n","g","l","e"," ","q","u","o",
                     "t","e","s",".","\n","\n">>

OriginalPrefix == <<"O","r","i","g","i","n","a","l"," ","d","e","s","c","r","i","p",
                    "t","i","o","n",":"," ">>

ConvertedDescriptionPrefix == <<"C","o","n","v","e","r","t","e","d"," ","d","e","s",
                                "c","r","i","p","t","i","o","n",":"," ">>

\* The handler of convert-quotes.
convertQuotesHandler(description, result) ==
    Fulfilled(ConvertedPrefix \o numberToString(result.replacementCount)
        \o ConvertedSuffix
        \o OriginalPrefix \o description \o <<"\n", "\n">>
        \o ConvertedDescriptionPrefix \o result.convertedDescription)

\* "Here's your Mermaid flowchart code:\n\n```mermaid\n"
MermaidOpen == <<"H","e","r","e","'","s"," ","y","o","u","r"," ","M","e","r","m",
                 "a","i","d"," ","f","l","o","w","c","h","a","r","t"," ","c","o",
                 "d","e",":","\n","\n","U+0060","U+0060","U+0060","m","e","r","m",
                 "a","i","d","\n">>

\* "\n```\n\nYou can use this code in any Mermaid-compatible tool or editor."
MermaidClose ==
    <<"\n","U+0060","U+0060","U+0060","\n","\n","Y","o","u"," ","c","a","n"," ","u",
      "s","e"," ","t","h","i","s"," ","c","o","d","e"," ","i","n"," ","a","n","y",
      " ","M","e","r","m","a","i","d","-","c","o","m","p","a","t","i","b","l","e",
      " ","t","o","o","l"," ","o","r"," ","e","d","i","t","o","r",".">>

\* "Error generating flowchart: "
ErrorPrefix == <<"E","r","r","o","r"," ","g","e","n","e","r","a","t","i","n","g",
                 " ","f","l","o","w","c","h","a","r","t",":"," ">>

\* The message of the RangeError that a concatenation throws when its result
\* would be longer than MaxStringLength.
InvalidStringLength == <<"I","n","v","a","l","i","d"," ","s","t","r","i","n","g",
                         " ","l","e","n","g","t","h">>

\* What the try block comes to: the string generateFlowchart returned, or the
\* message of the error thrown.
Returned(value) == [threw |-> FALSE, value |-> value]

Thrown(message) == [threw |-> TRUE, value |-> message]

\* The try block of the generate-flowchart handler: generateFlowchart is called
\* and its text put between MermaidOpen and MermaidClose, unless a
\* concatenation on the way throws.
tryGenerateFlowchart(description) ==
    LET mermaidCode == generateFlowchart(description)
    IN  IF Len(MermaidOpen \o mermaidCode \o MermaidClose) > MaxStringLength
        THEN Thrown(InvalidStringLength)
        ELSE Returned(mermaidCode)

\* A generate-flowchart handler without its catch block: a thrown error
\* rejects the promise.
generateFlowchartHandlerWithoutCatch(outcome) ==
    IF outcome.threw
    THEN Rejected
    ELSE Fulfilled(MermaidOpen \o outcome.value \o MermaidClose)

\* The handler of generate-flowchart: what the try block returns, or what the
\* catch block returns for the error thrown in it.
generateFlowchartHandler(outcome) ==
    IF outcome.threw
    THEN Fulfilled(ErrorPrefix \o outcome.value)
    ELSE Fulfilled(MermaidOpen \o outcome.value \o MermaidClose)

(* ------------------------------ inputs -------------------------------- *)

\* The delimiters in the order in which a description uses them in turn.
DelimiterCycle == <<".", ",", "\n">>

\* fragments[1] d fragments[2] d' ... fragments[n]: the fragments with the
\* delimiters of DelimiterCycle between them, taken in turn from the one at
\* position first.
RECURSIVE join(_, _)
join(fragments, first) ==
    IF Len(fragments) = 1 THEN fragments[1]
    ELSE fragments[1] \o <<DelimiterCycle[first]>>
             \o join(Tail(fragments), (first % Len(DelimiterCycle)) + 1)

\* Every description of at most MaxFrags fragments of F, whatever delimiter
\* comes first.
DescriptionsOf(F) ==
    UNION { { join(fs, first) : fs \in [1..n -> F], first \in 1..Len(DelimiterCycle) }
            : n \in 1..MaxFrags }

\* Fragments for generate-flowchart: empty, blank, decision and else keywords
\* (in either case, with blanks around, with a quote inside) and a plain text.
GenerateFragments ==
    { <<>>,
      <<" ">>,
      <<"I","f">>,
      <<" ","D","e","c","i","d","e"," ">>,
      <<"e","l","s","e">>,
      <<"O","t","h","e","r","\"","w","i","s","e">>,
      <<"a","'">> }

\* Fragments for analyze-flowchart: a start, two connector and a decision
\* marker, and a text with quotes and blanks.
AnalyzeFragments ==
    { <<"F","i","r","s","t">>,
      <<" ","t","h","e","n">>,
      <<"I","f">>,
      <<"\""," ","a","'">>,
      <<"x","-",">">> }

ConvertAlphabet == {"a", "\"", "'", "."}

\* Every string over ConvertAlphabet of at most MaxLen characters.
ConvertDescriptions ==
    UNION { [1..n -> ConvertAlphabet] : n \in 0..MaxLen }

(* --------------------------- the two servers -------------------------- *)

\* entry     the file node runs: "index" (src/src/index.ts) or "cli" (the
\*           server that src/src/cli.ts defines)
\* pc        how far the file's top-level statements have run
\* tools     the names registered on the file's McpServer
\* request   the tools/call being handled: <<>> or <<[tool, description]>>
\* result    what the core function called by the handler came to: <<>> or
\*           one value
\* response  what the handler's promise settled to: <<>> or one settlement
\* prior     the result of the conversion whose convertedDescription is the
\*           description of the request being handled: <<>> or one result
\* calls     the tools/call requests in flight when the client does not wait
\*           for one response before its next request: per slot, the request
\*           and the settlement of its handler's promise, <<>> before the
\*           handler has run
VARIABLES entry, pc, tools, request, result, response, prior, calls

vars == <<entry, pc, tools, request, result, response, prior, calls>>

\* The slots of the requests in flight.
CallIds == 1..MaxCalls

\* A slot without a request.
NoCall == [status |-> "free", tool |-> "", description |-> <<>>, response |-> <<>>]

Entries == {"index", "cli"}

\* new McpServer({...}): a server without tools.
Init ==
    /\ entry \in Entries
    /\ pc = "created"
    /\ tools = {}
    /\ request = <<>>
    /\ result = <<>>
    /\ response = <<>>
    /\ prior = <<>>
    /\ calls = [id \in CallIds |-> NoCall]

\* server.tool("analyze-flowchart", ...), in both files.
RegisterAnalyzeFlowchart ==
    /\ pc = "created"
    /\ tools' = tools \cup {"analyze-flowchart"}
    /\ pc' = "analyze-registered"
    /\ UNCHANGED <<entry, request, result, response, prior, calls>>

\* server.tool("convert-quotes", ...), the last registration of index.ts.
RegisterConvertQuotes ==
    /\ entry = "index"
    /\ pc = "analyze-registered"
    /\ tools' = tools \cup {"convert-quotes"}
    /\ pc' = "loaded"
    /\ UNCHANGED <<entry, request, result, response, prior, calls>>

\* server.tool("generate-flowchart", ...), the last registration of cli.ts.
RegisterGenerateFlowchart ==
    /\ entry = "cli"
    /\ pc = "analyze-registered"
    /\ tools' = tools \cup {"generate-flowchart"}
    /\ pc' = "loaded"
    /\ UNCHANGED <<entry, request, result, response, prior, calls>>

\* main(): the server is connected to the transport and serves requests.
main ==
    /\ pc = "loaded"
    /\ pc' = "connected"
    /\ UNCHANGED <<entry, tools, request, result, response, prior, calls>>

Idle == pc = "connected" /\ request = <<>>

\* A tools/call of analyze-flowchart: the handler runs to its return.
AnalyzeFlowchart ==
    /\ Idle
    /\ "analyze-flowchart" \in tools
    /\ \E description \in DescriptionsOf(AnalyzeFragments) :
        LET analysis == IF entry = "index"
                        THEN analyzeFlowchartDescription(description)
                        ELSE cliAnalyzeFlowchartDescription(description)
        IN  /\ request' = << [tool |-> "analyze-flowchart",
                              description |-> description] >>
            /\ result' = <<analysis>>
            /\ response' = <<analyzeFlowchartHandler(analysis)>>
    /\ UNCHANGED <<entry, pc, tools, prior, calls>>

\* A tools/call of convert-quotes: the handler runs to its return.
ConvertQuotes ==
    /\ Idle
    /\ "convert-quotes" \in tools
    /\ \E description \in ConvertDescriptions :
        LET converted == convertDoubleToSingleQuotesInsideText(description)
        IN  /\ request' = << [tool |-> "convert-quotes",
                              description |-> description] >>
            /\ result' = <<converted>>
            /\ response' = <<convertQuotesHandler(description, converted)>>
    /\ UNCHANGED <<entry, pc, tools, prior, calls>>

\* The client calls convert-quotes again, on the converted description that
\* the call just handled returned.
ConvertQuotesAgain ==
    /\ pc = "connected"
    /\ request # <<>>
    /\ request[1].tool = "convert-quotes"
    /\ prior = <<>>
    /\ LET description == result[1].convertedDescription
           converted   == convertDoubleToSingleQuotesInsideText(description)
       IN  /\ request' = << [tool |-> "convert-quotes",
                             description |-> description] >>
           /\ result' = <<converted>>
           /\ response' = <<convertQuotesHandler(description, converted)>>
           /\ prior' = result
    /\ UNCHANGED <<entry, pc, tools, calls>>

\* A tools/call of generate-flowchart: the handler runs to its return, through
\* its try block or through its catch block.
GenerateFlowchart ==
    /\ Idle
    /\ "generate-flowchart" \in tools
    /\ \E description \in DescriptionsOf(GenerateFragments) :
        LET outcome == tryGenerateFlowchart(description)
        IN  /\ request' = << [tool |-> "generate-flowchart",
                              description |-> description] >>
            /\ result' = <<outcome>>
            /\ response' = <<generateFlowchartHandler(outcome)>>
    /\ UNCHANGED <<entry, pc, tools, prior, calls>>

\* The response is sent; nothing of the call is kept.
Reply ==
    /\ request # <<>>
    /\ request' = <<>>
    /\ result' = <<>>
    /\ response' = <<>>
    /\ prior' = <<>>
    /\ UNCHANGED <<entry, pc, tools, calls>>

Next ==
    \/ RegisterAnalyzeFlowchart
    \/ RegisterConvertQuotes
    \/ RegisterGenerateFlowchart
    \/ main
    \/ AnalyzeFlowchart
    \/ ConvertQuotes
    \/ ConvertQuotesAgain
    \/ GenerateFlowchart
    \/ Reply

Spec == Init /\ [][Next]_vars

(* ------------------------- requests in flight ------------------------- *)

\* The descriptions of the requests in flight: one fragment each.
CallDescriptions(tool) ==
    CASE tool = "analyze-flowchart"  -> AnalyzeFragments
      [] tool = "generate-flowchart" -> GenerateFragments
      [] tool = "convert-quotes"     -> {<<c>> : c \in ConvertAlphabet}

\* A handler reading its description from a variable that the calls in flight
\* share, written by each request as it arrives: the description of the call in
\* the highest slot in use.
argumentsOfShared(cs, id) ==
    LET used == {k \in DOMAIN cs : cs[k].status # "free"}
    IN  cs[CHOOSE k \in used : \A m \in used : m <= k].description

\* async ({ description }) => ...: the description a handler works on is the
\* parameter of its own call.
argumentsOf(cs, id) == cs[id].description

\* The callback registered under tool, run to its return on description; no
\* callback awaits, so each runs in one piece.
callTool(e, tool, description) ==
    CASE tool = "analyze-flowchart" ->
             analyzeFlowchartHandler(
                 IF e = "index"
                 THEN analyzeFlowchartDescription(description)
                 ELSE cliAnalyzeFlowchartDescription(description))
      [] tool = "convert-quotes" ->
             convertQuotesHandler(
                 description, convertDoubleToSingleQuotesInsideText(description))
      [] tool = "generate-flowchart" ->
             generateFlowchartHandler(tryGenerateFlowchart(description))

\* The transport reads a tools/call request while others are in flight.
ReceiveCall ==
    /\ pc = "connected"
    /\ \E id \in CallIds : \E tool \in tools :
           \E description \in CallDescriptions(tool) :
               /\ calls[id].status = "free"
               /\ calls' = [calls EXCEPT ![id] =
                                [status      |-> "received",
                                 tool        |-> tool,
                                 description |-> description,
                                 response    |-> <<>>]]
    /\ UNCHANGED <<entry, pc, tools, request, result, response, prior>>

\* The callback of one of the requests in flight runs, in any order of the
\* requests, and its promise settles.
RunHandler ==
    /\ \E id \in CallIds :
           /\ calls[id].status = "received"
           /\ calls' = [calls EXCEPT
                           ![id].status = "handled",
                           ![id].response =
                               << callTool(entry, calls[id].tool,
                                           argumentsOf(calls, id)) >>]
    /\ UNCHANGED <<entry, pc, tools, request, result, response, prior>>

\* The response of a settled call is written to the transport; nothing of the
\* call is kept.
SendResponse ==
    /\ \E id \in CallIds :
           /\ calls[id].status = "handled"
           /\ calls' = [calls EXCEPT ![id] = NoCall]
    /\ UNCHANGED <<entry, pc, tools, request, result, response, prior>>

ConcurrentNext ==
    \/ RegisterAnalyzeFlowchart
    \/ RegisterConvertQuotes
    \/ RegisterGenerateFlowchart
    \/ main
    \/ ReceiveCall
    \/ RunHandler
    \/ SendResponse

ConcurrentSpec == Init /\ [][ConcurrentNext]_vars

(* ===================================================================== *)
(*                        Properties of the servers                      *)
(* ===================================================================== *)

\* The call being handled is a call of tool.
Handling(tool) == request # <<>> /\ request[1].tool = tool

\* generate-flowchart is being handled and generateFlowchart returned.
Generated == Handling("generate-flowchart") /\ ~result[1].threw

Min(S) == CHOOSE m \in S : \A x \in S : m <= x

Max(S) == CHOOSE m \in S : \A x \in S : x <= m

\* The members of a set of numbers in increasing order.
RECURSIVE Ascending(_)
Ascending(S) ==
    IF S = {} THEN <<>> ELSE <<Min(S)>> \o Ascending(S \ {Min(S)})

\* The concatenation of a sequence of sequences.
RECURSIVE Flatten(_)
Flatten(ss) == IF ss = <<>> THEN <<>> ELSE Head(ss) \o Flatten(Tail(ss))

\* The lines of a text: what stands before each of its line feeds, and what
\* follows the last one when that is not empty.
RECURSIVE LinesOf(_)
LinesOf(text) ==
    IF text = <<>> THEN <<>>
    ELSE LET feeds == {p \in 1..Len(text) : text[p] = "\n"}
         IN  IF feeds = {} THEN <<text>>
             ELSE <<SubSeq(text, 1, Min(feeds) - 1)>>
                      \o LinesOf(SubSeq(text, Min(feeds) + 1, Len(text)))

\* The lines, each followed by a line feed.
Unlines(lines) == Flatten([k \in 1..Len(lines) |-> lines[k] \o <<"\n">>])

\* The Step Extractor, stated on the positions of the description: a step starts
\* at the first character of a fragment that is neither a delimiter nor white
\* space, and ends at the last such character of the same fragment.
StepDelimiters == {".", ",", "\n"}

Content(d, p) == d[p] \notin StepDelimiters /\ d[p] \notin WhiteSpace

SameFragment(d, p, q) == \A r \in p..q : d[r] \notin StepDelimiters

StepStarts(d) ==
    {a \in 1..Len(d) :
        /\ Content(d, a)
        /\ \A q \in 1..(a - 1) : ~(Content(d, q) /\ SameFragment(d, q, a))}

StepEnd(d, a) == Max({b \in a..Len(d) : Content(d, b) /\ SameFragment(d, a, b)})

ExtractedSteps(d) ==
    LET starts == Ascending(StepStarts(d))
    IN  [k \in 1..Len(starts) |-> SubSeq(d, starts[k], StepEnd(d, starts[k]))]

\* label contains word, whatever the case of its letters.
HasWord(label, word) ==
    \E p \in 1..(Len(label) - Len(word) + 1) :
        \A q \in 1..Len(word) : toLowerCase(<<label[p + q - 1]>>) = <<word[q]>>

DecisionLabel(label) ==
    \/ HasWord(label, <<"i","f">>)
    \/ HasWord(label, <<"d","e","c","i","d","e">>)
    \/ HasWord(label, <<"c","h","e","c","k">>)

ElseLabel(label) ==
    HasWord(label, <<"e","l","s","e">>) \/ HasWord(label, <<"o","t","h","e","r","w","i","s","e">>)

\* The else nodes after node i.
LaterElse(nodes, i) == {j \in (i + 1)..Len(nodes) : ElseLabel(nodes[j].label)}

\* Node i is a decision node with an else node after it.
Branches(nodes, i) == DecisionLabel(nodes[i].label) /\ LaterElse(nodes, i) # {}

StepName(k) == <<"s","t","e","p">> \o numberToString(k)

EdgeLine(from, arrow, to) ==
    <<" "," "," "," ">> \o StepName(from) \o arrow \o StepName(to)

PlainArrow == <<" ","-","-",">"," ">>

YesArrow == <<" ","-","-",">","|","Y","e","s","|"," ">>

NoArrow == <<" ","-","-",">","|","N","o","|"," ">>

\* The edge lines C1 gives node i.
EdgesClaimed(nodes, i) ==
    IF Branches(nodes, i)
    THEN << EdgeLine(i, YesArrow, i + 1),
            EdgeLine(i, NoArrow, Min(LaterElse(nodes, i))) >>
    ELSE << EdgeLine(i, PlainArrow, i + 1) >>

\* The lines of the generated text after the header and the node lines.
EdgeLinesOf(code, n) ==
    LET lines == LinesOf(code) IN SubSeq(lines, n + 2, Len(lines))

\* C1: the edge lines of generateFlowchart's text are, for the nodes 1..N-1 in
\* order, the two lines `step<i> -->|Yes| step<i+1>` and `step<i> -->|No|
\* step<j>` (j the first else node after i) when node i is a decision node with
\* an else node after it, and the one line `step<i> --> step<i+1>` otherwise.
C1_EdgesPerNode ==
    Generated =>
        LET nodes == flowNodes(request[1].description)
            n     == Len(nodes)
        IN  EdgeLinesOf(result[1].value, n)
                = Flatten([i \in 1..(n - 1) |-> EdgesClaimed(nodes, i)])

\* Two decision nodes before the same first else node, both with their No edge
\* to it in the generated text.
C1_Witness ==
    /\ Generated
    /\ LET nodes == flowNodes(request[1].description)
           edges == EdgeLinesOf(result[1].value, Len(nodes))
       IN  \E i1, i2 \in 1..(Len(nodes) - 1) :
               /\ i1 < i2
               /\ Branches(nodes, i1)
               /\ Branches(nodes, i2)
               /\ \E k1, k2 \in 1..Len(edges) :
                      /\ edges[k1] = EdgeLine(i1, NoArrow, Min(LaterElse(nodes, i2)))
                      /\ edges[k2] = EdgeLine(i2, NoArrow, Min(LaterElse(nodes, i2)))

\* line is an edge line between two of the n declared nodes.
IsEdgeLine(line, n) ==
    \E from, to \in 1..n :
        \E arrow \in {PlainArrow, YesArrow, NoArrow} :
            line = EdgeLine(from, arrow, to)

\* C2: generateFlowchart's text is the line `flowchart TD`, then one line
\* `    step<k>["<label>"]` per extracted step, in order, the label being the
\* step without its ' and " characters (so the two quotes around the label are
\* the only ones of the line), then edge lines only; without steps it is
\* "flowchart TD\n".
C2_HeaderNodesEdges ==
    Generated =>
        LET code  == result[1].value
            steps == ExtractedSteps(request[1].description)
            n     == Len(steps)
            lines == LinesOf(code)
        IN  /\ code = Unlines(lines)
            /\ Len(lines) >= n + 1
            /\ lines[1] = <<"f","l","o","w","c","h","a","r","t"," ","T","D">>
            /\ \A k \in 1..n :
                   /\ lines[k + 1] = <<" "," "," "," ">> \o StepName(k) \o <<"[", "\"">>
                          \o SelectSeq(steps[k], LAMBDA c : c # "'" /\ c # "\"")
                          \o <<"\"", "]">>
                   /\ Len(SelectSeq(lines[k + 1],
                                    LAMBDA c : c = "'" \/ c = "\"")) = 2
            /\ \A k \in (n + 2)..Len(lines) : IsEdgeLine(lines[k], n)
            /\ (n = 0 => code = <<"f","l","o","w","c","h","a","r","t"," ","T","D",
                                  "\n">>)

\* A text with three node lines, one of a step that held a quote character.
C2_Witness ==
    /\ Generated
    /\ LET steps == ExtractedSteps(request[1].description)
       IN  /\ Len(steps) = 3
           /\ \E k \in 1..3 : \E p \in 1..Len(steps[k]) : steps[k][p] \in {"'", "\""}
    /\ Len(LinesOf(result[1].value)) >= 4

\* C9: the steps of a description are its fragments between the delimiters
\* `.`, `,` and line feed, trimmed, the blank ones left out, in their order:
\* no step is empty, starts or ends with white space or holds a delimiter; and
\* the analyzer keeps as many steps as the compiler.
C9_StepExtractor ==
    request # <<>> =>
        LET d     == request[1].description
            steps == stepTexts(d)
        IN  /\ steps = ExtractedSteps(d)
            /\ Len(steps) = Cardinality(StepStarts(d))
            /\ \A k \in 1..Len(steps) :
                   /\ steps[k] # <<>>
                   /\ steps[k][1] \notin WhiteSpace
                   /\ steps[k][Len(steps[k])] \notin WhiteSpace
                   /\ \A p \in 1..Len(steps[k]) : steps[k][p] \notin StepDelimiters
            /\ Len(previewSteps(d)) = Len(steps)

\* A description with a blank fragment, and a fragment with white space around
\* its step, handled by the compiler.
C9_Witness ==
    /\ Handling("generate-flowchart")
    /\ LET d == request[1].description
       IN  /\ Len(split(d)) = 3
           /\ Len(stepTexts(d)) = 2
           /\ \E k \in 1..3 : split(d)[k] # <<>> /\ trim(split(d)[k]) = <<>>
           /\ \E k \in 1..3 : trim(split(d)[k]) # <<>> /\ trim(split(d)[k]) # split(d)[k]

\* The markers of the three categories of the Completeness Analyzer.
StartMarkers == << <<"s","t","a","r","t">>, <<"b","e","g","i","n">>, <<"f","i","r","s","t">> >>

ConnectorMarkers ==
    << <<"t","h","e","n">>,
       <<"n","e","x","t">>,
       <<"a","f","t","e","r">>,
       <<"f","o","l","l","o","w","e","d"," ","b","y">>,
       <<"g","o","e","s"," ","t","o">>,
       <<"l","e","a","d","s"," ","t","o">>,
       <<"c","o","n","n","e","c","t","s"," ","t","o">>,
       <<"-",">">> >>

DecisionMarkers ==
    << <<"i","f">>,
       <<"e","l","s","e">>,
       <<"o","t","h","e","r","w","i","s","e">>,
       <<"w","h","e","n">>,
       <<"c","a","s","e">>,
       <<"c","o","n","d","i","t","i","o","n">>,
       <<"d","e","c","i","s","i","o","n">> >>

\* description holds one of the markers, whatever the case of its letters.
HasMarker(description, markers) ==
    \E m \in 1..Len(markers) : HasWord(description, markers[m])

\* C3: isComplete is true exactly when missingInfo is empty, which is exactly
\* when the description holds a start, a connector and a decision marker;
\* missingInfo holds one entry per absent category, in the order start,
\* connections, decisions.
C3_CompleteIffNothingMissing ==
    Handling("analyze-flowchart") =>
        LET d        == request[1].description
            analysis == result[1]
            start    == HasMarker(d, StartMarkers)
            connects == HasMarker(d, ConnectorMarkers)
            decides  == HasMarker(d, DecisionMarkers)
        IN  /\ analysis.isComplete <=> analysis.missingInfo = <<>>
            /\ analysis.missingInfo = <<>> <=> (start /\ connects /\ decides)
            /\ analysis.missingInfo =
                   (IF start THEN <<>>
                    ELSE << <<"S","t","a","r","t","i","n","g"," ","p","o","i","n",
                              "t"," ","o","f"," ","t","h","e"," ","f","l","o","w",
                              "c","h","a","r","t">> >>)
                   \o (IF connects THEN <<>>
                       ELSE << <<"C","o","n","n","e","c","t","i","o","n","s"," ",
                                 "b","e","t","w","e","e","n"," ","s","t","e","p",
                                 "s"," ","(","u","s","e"," ","w","o","r","d","s",
                                 " ","l","i","k","e"," ","'","t","h","e","n","'",
                                 ","," ","'","n","e","x","t","'",","," ","'","a",
                                 "f","t","e","r","'",","," ","e","t","c",".",")">> >>)
                   \o (IF decides THEN <<>>
                       ELSE << <<"D","e","c","i","s","i","o","n"," ","p","o","i",
                                 "n","t","s"," ","(","i","f"," ","a","n","y"," ",
                                 "a","r","e"," ","n","e","e","d","e","d"," ","i",
                                 "n"," ","t","h","i","s"," ","f","l","o","w","c",
                                 "h","a","r","t",")">> >>)

\* A description found complete thanks to markers written with capitals.
C3_Witness ==
    /\ Handling("analyze-flowchart")
    /\ result[1].isComplete
    /\ ~includes(request[1].description, <<"f","i","r","s","t">>)
    /\ ~includes(request[1].description, <<"i","f">>)

\* C4 (as claimed): the preview is "Flow preview:\n" and then, for the k-th
\* extracted step, the line "<k>. <the step without its quote characters>";
\* no line of it holds a quote character.
C4_PreviewStripsQuotes ==
    Handling("analyze-flowchart") =>
        LET steps == ExtractedSteps(request[1].description)
        IN  /\ result[1].preview =
                   <<"F","l","o","w"," ","p","r","e","v","i","e","w",":","\n">>
                   \o Flatten([k \in 1..Len(steps) |->
                          numberToString(k) \o <<".", " ">>
                              \o SelectSeq(steps[k], LAMBDA c : c # "\"")
                              \o <<"\n">>])
            /\ \A p \in 1..Len(result[1].preview) : result[1].preview[p] # "\""

\* The input without its double quotes.
RECURSIVE WithoutDoubleQuotes(_)
WithoutDoubleQuotes(s) ==
    IF s = <<>> THEN <<>>
    ELSE (IF Head(s) = "\"" THEN <<>> ELSE <<Head(s)>>)
             \o WithoutDoubleQuotes(Tail(s))

DoubleQuotesIn(s) == Cardinality({p \in 1..Len(s) : s[p] = "\""})

C7_DoubleBecomesSingle ==
    (Handling("convert-quotes") /\ prior = <<>>) =>
        LET d         == request[1].description
            converted == result[1].convertedDescription
        IN  /\ \A p \in 1..Len(d) :
                   d[p] = "\"" => (p <= Len(converted) /\ converted[p] = "'")
            /\ result[1].replacementCount = DoubleQuotesIn(d)

\* C8: once the top-level statements of index.ts have run, its server has the
\* three tools analyze-flowchart, convert-quotes and generate-flowchart.
C8_IndexRegistersThreeTools ==
    (entry = "index" /\ pc \in {"loaded", "connected"}) =>
        {"analyze-flowchart", "convert-quotes", "generate-flowchart"} \subseteq tools

\* C10: a call of generate-flowchart is fulfilled, never rejected, with one text
\* item: the generated text inside a mermaid code block, or, when
\* generateFlowchart threw, a text that starts "Error generating flowchart: ".
C10_GenerateAlwaysAnswers ==
    Handling("generate-flowchart") =>
        /\ response # <<>>
        /\ response[1].state = "fulfilled"
        /\ Len(response[1].content) = 1
        /\ response[1].content[1].type = "text"
        /\ LET text == response[1].content[1].text
           IN  IF result[1].threw
               THEN SubSeq(text, 1, 28) = <<"E","r","r","o","r"," ","g","e","n","e",
                                            "r","a","t","i","n","g"," ","f","l","o",
                                            "w","c","h","a","r","t",":"," ">>
               ELSE includes(text,
                        <<"U+0060","U+0060","U+0060","m","e","r","m","a","i","d",
                          "\n">> \o result[1].value \o <<"\n","U+0060","U+0060","U+0060">>)

\* generateFlowchart threw and the call was answered with the error text.
C10_Witness ==
    /\ Handling("generate-flowchart")
    /\ result[1].threw
    /\ response # <<>>
    /\ response[1].state = "fulfilled"
    /\ Len(response[1].content[1].text) > 28

(* ------------------------- the generated graph ------------------------ *)

Arrows == {PlainArrow, YesArrow, NoArrow}

\* The edges the lines name, as pairs of step numbers; the numbers 0 and n + 1
\* stand for identifiers that no node line declares.
EdgePairs(edges, n) ==
    {e \in (0..(n + 1)) \X (0..(n + 1)) :
        \E k \in 1..Len(edges) : \E arrow \in Arrows :
            edges[k] = EdgeLine(e[1], arrow, e[2])}

Successors(E, S) == {e[2] : e \in {x \in E : x[1] \in S}}

\* The nodes reached from the set S in at most k further steps along E.
RECURSIVE ReachWithin(_, _, _)
ReachWithin(E, S, k) ==
    IF k = 0 THEN S ELSE ReachWithin(E, S \cup Successors(E, S), k - 1)

\* The nodes reached from node v along one edge of E or more.
ReachableFrom(E, v) == ReachWithin(E, Successors(E, {v}), Cardinality(E))

\* C12: every edge line of generateFlowchart's text goes from step<i> to
\* step<j> with 1 <= i < j <= N, N the number of declared nodes: no edge is a
\* self-loop, goes backward or names an undeclared identifier, no node reaches
\* itself along the edges, and step<N> has no outgoing edge.
C12_EdgesGoForward ==
    Generated =>
        LET n     == Len(flowNodes(request[1].description))
            edges == EdgeLinesOf(result[1].value, n)
            E     == EdgePairs(edges, n)
        IN  /\ \A k \in 1..Len(edges) :
                   \E i, j \in 1..n :
                       /\ i < j
                       /\ \E arrow \in Arrows : edges[k] = EdgeLine(i, arrow, j)
            /\ \A e \in E : 1 <= e[1] /\ e[1] < e[2] /\ e[2] <= n
            /\ \A v \in 1..n : v \notin ReachableFrom(E, v)
            /\ \A e \in E : e[1] # n

\* A text of three nodes whose second node is a decision node and whose first
\* node is an else node: the inner loop, run from the start, would have sent
\* the No edge backward.
C12_Witness ==
    /\ Generated
    /\ LET nodes == flowNodes(request[1].description)
           edges == EdgeLinesOf(result[1].value, Len(nodes))
       IN  /\ Len(nodes) = 3
           /\ ElseLabel(nodes[1].label)
           /\ DecisionLabel(nodes[2].label)
           /\ Len(edges) >= 2
           /\ <<2, 3>> \in EdgePairs(edges, 3)

\* C13: with N >= 2 declared nodes the text has, for every i in 1..N-1, an
\* edge line from step<i> to step<i+1>, labelled Yes when node i is a decision
\* node with a later else node and unlabelled otherwise, also when step<i+1>
\* is the else node of the No edge; so every node is reached from step1 and
\* every node but step1 has an incoming edge.
C13_SequentialChain ==
    (Generated /\ Len(flowNodes(request[1].description)) >= 2) =>
        LET nodes == flowNodes(request[1].description)
            n     == Len(nodes)
            edges == EdgeLinesOf(result[1].value, n)
            E     == EdgePairs(edges, n)
            Has(line) == \E k \in 1..Len(edges) : edges[k] = line
        IN  /\ \A i \in 1..(n - 1) :
                   /\ Branches(nodes, i) =>
                          /\ Has(EdgeLine(i, YesArrow, i + 1))
                          /\ ~Has(EdgeLine(i, PlainArrow, i + 1))
                   /\ ~Branches(nodes, i) =>
                          /\ Has(EdgeLine(i, PlainArrow, i + 1))
                          /\ ~Has(EdgeLine(i, YesArrow, i + 1))
                   /\ (Branches(nodes, i) /\ ElseLabel(nodes[i + 1].label)) =>
                          Has(EdgeLine(i, NoArrow, i + 1))
                   /\ <<i, i + 1>> \in E
            /\ \A v \in 2..n : v \in ReachableFrom(E, 1)
            /\ \A v \in 2..n : \E e \in E : e[2] = v
            /\ \A e \in E : e[2] # 1

\* A decision node followed at once by its else node, and a third node that
\* only the chain reaches: step1 has its Yes edge and its No edge to step2.
C13_Witness ==
    /\ Generated
    /\ LET nodes == flowNodes(request[1].description)
           edges == EdgeLinesOf(result[1].value, Len(nodes))
       IN  /\ Len(nodes) = 3
           /\ Branches(nodes, 1)
           /\ ElseLabel(nodes[2].label)
           /\ ~ElseLabel(nodes[3].label)
           /\ edges = << EdgeLine(1, YesArrow, 2),
                         EdgeLine(1, NoArrow, 2),
                         EdgeLine(2, PlainArrow, 3) >>

(* ------------------------ invocations in flight ----------------------- *)

\* The response of a call of tool on description that is the only call the
\* server of entry e has in flight.
RunAlone(e, tool, description) ==
    IF tool = "analyze-flowchart"
    THEN analyzeFlowchartHandler(
             IF e = "index"
             THEN analyzeFlowchartDescription(description)
             ELSE cliAnalyzeFlowchartDescription(description))
    ELSE IF tool = "convert-quotes"
    THEN convertQuotesHandler(
             description, convertDoubleToSingleQuotesInsideText(description))
    ELSE generateFlowchartHandler(tryGenerateFlowchart(description))

\* The names server.tool registers in the file of entry e.
RegisteredTools(e) ==
    IF e = "index"
    THEN {"analyze-flowchart", "convert-quotes"}
    ELSE {"analyze-flowchart", "generate-flowchart"}

\* C11: with several calls in flight and their handlers run in any order,
\* after every step each settled call holds the response of the same call run
\* alone on its description; a step touches one call at most, never a settled
\* one but to send it and never the request of a waiting one; and once the
\* server is connected its entry, its tools and its connection stay as they
\* were, so with every response sent the server is as before the calls.
C11_InvocationIsolation ==
    [][ /\ \A id \in CallIds :
               calls'[id].status = "handled" =>
                   calls'[id].response =
                       << RunAlone(entry, calls'[id].tool, calls'[id].description) >>
        /\ Cardinality({id \in CallIds : calls'[id] # calls[id]}) <= 1
        /\ \A id \in CallIds :
               /\ calls[id].status = "handled" => calls'[id] \in {calls[id], NoCall}
               /\ calls[id].status = "received" =>
                      /\ calls'[id].tool = calls[id].tool
                      /\ calls'[id].description = calls[id].description
        /\ pc = "connected" =>
               /\ pc' = pc
               /\ entry' = entry
               /\ tools' = tools
               /\ tools = RegisteredTools(entry)
               /\ (\A id \in CallIds : calls'[id] = NoCall) =>
                      <<request', result', response', prior'>>
                          = << <<>>, <<>>, <<>>, <<>> >>
      ]_vars

\* Two calls of one tool in flight together, on different descriptions, both
\* settled, with different responses.
C11_Witness ==
    /\ calls[1].status = "handled"
    /\ calls[2].status = "handled"
    /\ calls[1].tool = calls[2].tool
    /\ calls[1].description # calls[2].description
    /\ calls[1].response # calls[2].response

====
